---- MODULE Spec2Model ----
(***************************************************************************)
(* Form template builder (src/src/App.js): a React single-page UI whose    *)
(* components keep templates in component state and in localStorage.       *)
(*                                                                         *)
(* A storage value (a JS string holding JSON) is modelled as the sequence  *)
(* of its lexical tokens: "[", "]", "{", "}", ",", ":", an object key, and *)
(* a string literal as the two tokens "str", <content>; booleans are the   *)
(* tokens "true" and "false".  The empty JS string is the empty sequence.  *)
(***************************************************************************)
EXTENDS Integers, Sequences, FiniteSets, TLC

VARIABLES
  localStorage,      \* key -> text; a key outside the domain is absent
  mode,              \* "builder" | "fill" | "crashed" (render threw)
  appTemplates,      \* App: const [templates] = useState(...)
  selectedTemplate,  \* App: selectedTemplate (null in builder mode)
  templates,         \* TemplateBuilder: templates
  currentTemplate,   \* TemplateBuilder: currentTemplate
  formData,          \* DynamicForm: formData, an insertion-ordered object
  nextId,            \* number of uuid() values generated so far
  changes,           \* number of events so far that changed data
  outcome            \* how the last event ended: "ok" | "noop" | "threw"

vars == <<localStorage, mode, appTemplates, selectedTemplate, templates,
          currentTemplate, formData, nextId, changes, outcome>>

----------------------------------------------------------------------------
(* Bounds *)

\* events that change data (create, add, edit, delete, answer, submit)
\* explored in one session
MaxChanges == 2

(* Program constants *)

MaxTemplates == 5

FIELD_TYPES == <<"label", "text", "number", "boolean", "enum">>

(* Texts typed into the inputs.  The text of the options input is given as *)
(* its characters, so that split(",") is computed.                         *)

TitleInputs == {"Intro"}
LabelInputs == {"Name"}
OptionInputs == {<<>>, <<"x", ",", "y">>}

null == [tag |-> "null"]

----------------------------------------------------------------------------
(* JavaScript values as JSON.parse builds them: a string or a boolean is   *)
(* tagged, an array is a sequence, an object is the sequence of its        *)
(* properties in insertion order.                                          *)

JStr(s) == [t |-> "str", s |-> s]
JBool(b) == [t |-> "bool", b |-> b]

HasKey(o, k) == \E j \in DOMAIN o : o[j].k = k

Get(o, k) == o[CHOOSE j \in DOMAIN o : o[j].k = k].v

\* {...o, [k]: v}
Put(o, k, v) ==
  IF HasKey(o, k)
    THEN [j \in DOMAIN o |-> IF o[j].k = k THEN [k |-> k, v |-> v] ELSE o[j]]
    ELSE Append(o, [k |-> k, v |-> v])

\* the token sequences of xs joined by "," tokens
RECURSIVE JoinComma(_)
JoinComma(xs) ==
  IF xs = <<>> THEN <<>>
  ELSE IF Len(xs) = 1 THEN xs[1]
  ELSE xs[1] \o <<",">> \o JoinComma(Tail(xs))

StrTok(s) == <<"str", s>>

ArrTok(elems) == <<"[">> \o JoinComma(elems) \o <<"]">>

ObjTok(members) == <<"{">> \o JoinComma(members) \o <<"}">>

Member(k, valueTokens) == <<k, ":">> \o valueTokens

----------------------------------------------------------------------------
(* JSON.stringify of the program's values *)

StringifyField(f) ==
  ObjTok(<<Member("id", StrTok(f.id)),
           Member("type", StrTok(f.type)),
           Member("label", StrTok(f.label))>>
         \o (IF "options" \in DOMAIN f
               THEN <<Member("options",
                       ArrTok([j \in DOMAIN f.options |-> StrTok(f.options[j])]))>>
               ELSE <<>>))

StringifySection(s) ==
  ObjTok(<<Member("id", StrTok(s.id)),
           Member("title", StrTok(s.title)),
           Member("fields",
             ArrTok([j \in DOMAIN s.fields |-> StringifyField(s.fields[j])]))>>)

StringifyTemplate(tp) ==
  ObjTok(<<Member("id", StrTok(tp.id)),
           Member("name", StrTok(tp.name)),
           Member("sections",
             ArrTok([j \in DOMAIN tp.sections |-> StringifySection(tp.sections[j])]))>>)

StringifyTemplates(ts) ==
  ArrTok([j \in DOMAIN ts |-> StringifyTemplate(ts[j])])

StringifyAnswer(v) ==
  IF v.t = "bool" THEN (IF v.b THEN <<"true">> ELSE <<"false">>) ELSE StrTok(v.s)

StringifyFormData(fd) ==
  ObjTok([j \in DOMAIN fd |-> Member(fd[j].k, StringifyAnswer(fd[j].v))])

StringifyLog(log) ==
  ArrTok([j \in DOMAIN log |-> StringifyFormData(log[j])])

----------------------------------------------------------------------------
(* JSON.parse: recursive descent over the tokens.  A result is either      *)
(* [ok |-> FALSE] (SyntaxError thrown) or [ok, val, next].                 *)

Fail == [ok |-> FALSE]

Ok(v, n) == [ok |-> TRUE, val |-> v, next |-> n]

RECURSIVE ParseValue(_, _)
RECURSIVE ParseElems(_, _, _)
RECURSIVE ParseMembers(_, _, _)

ParseValue(tk, i) ==
  IF i > Len(tk) THEN Fail
  ELSE IF tk[i] = "str"
    THEN (IF i + 1 <= Len(tk) THEN Ok(JStr(tk[i + 1]), i + 2) ELSE Fail)
  ELSE IF tk[i] = "true" THEN Ok(JBool(TRUE), i + 1)
  ELSE IF tk[i] = "false" THEN Ok(JBool(FALSE), i + 1)
  ELSE IF tk[i] = "["
    THEN (IF i + 1 <= Len(tk) /\ tk[i + 1] = "]"
            THEN Ok(<<>>, i + 2)
            ELSE ParseElems(tk, i + 1, <<>>))
  ELSE IF tk[i] = "{"
    THEN (IF i + 1 <= Len(tk) /\ tk[i + 1] = "}"
            THEN Ok(<<>>, i + 2)
            ELSE ParseMembers(tk, i + 1, <<>>))
  ELSE Fail

ParseElems(tk, i, acc) ==
  LET r == ParseValue(tk, i) IN
  IF ~r.ok THEN Fail
  ELSE IF r.next > Len(tk) THEN Fail
  ELSE IF tk[r.next] = "," THEN ParseElems(tk, r.next + 1, Append(acc, r.val))
  ELSE IF tk[r.next] = "]" THEN Ok(Append(acc, r.val), r.next + 1)
  ELSE Fail

ParseMembers(tk, i, acc) ==
  IF i + 1 > Len(tk) \/ tk[i + 1] # ":" THEN Fail
  ELSE
    LET r == ParseValue(tk, i + 2) IN
    IF ~r.ok THEN Fail
    ELSE IF r.next > Len(tk) THEN Fail
    ELSE IF tk[r.next] = "," THEN ParseMembers(tk, r.next + 1, Put(acc, tk[i], r.val))
    ELSE IF tk[r.next] = "}" THEN Ok(Put(acc, tk[i], r.val), r.next + 1)
    ELSE Fail

JSONparse(tk) ==
  LET r == ParseValue(tk, 1) IN
  IF r.ok /\ r.next = Len(tk) + 1 THEN r ELSE Fail

(* The parsed objects read as the records the components use: a property   *)
(* is a record field, a string is its content.                             *)

FieldOf(o) ==
  [k \in {o[j].k : j \in DOMAIN o} |->
     IF k = "options"
       THEN [j \in DOMAIN Get(o, k) |-> Get(o, k)[j].s]
       ELSE Get(o, k).s]

SectionOf(o) ==
  [id |-> Get(o, "id").s,
   title |-> Get(o, "title").s,
   fields |-> [j \in DOMAIN Get(o, "fields") |-> FieldOf(Get(o, "fields")[j])]]

TemplateOf(o) ==
  [id |-> Get(o, "id").s,
   name |-> Get(o, "name").s,
   sections |-> [j \in DOMAIN Get(o, "sections") |-> SectionOf(Get(o, "sections")[j])]]

TemplatesOf(a) == [j \in DOMAIN a |-> TemplateOf(a[j])]

----------------------------------------------------------------------------
(* localStorage *)

TEMPLATES_KEY == "templates"

FormDataKey(tp) == "form_data_" \o tp.id

HasItem(st, key) == key \in DOMAIN st

\* localStorage.setItem(key, text)
SetItem(st, key, text) ==
  [k \in DOMAIN st \cup {key} |-> IF k = key THEN text ELSE st[k]]

\* `stored` is truthy: getItem returned a non-empty string
Truthy(st, key) == HasItem(st, key) /\ st[key] # <<>>

\* const stored = localStorage.getItem("templates");
\* return stored ? JSON.parse(stored) : [];
LoadTemplates(st) ==
  IF Truthy(st, TEMPLATES_KEY)
    THEN (LET r == JSONparse(st[TEMPLATES_KEY]) IN
          IF r.ok THEN [ok |-> TRUE, val |-> TemplatesOf(r.val)] ELSE Fail)
    ELSE [ok |-> TRUE, val |-> <<>>]

----------------------------------------------------------------------------
(* Model values of the templates *)

\* uuid(): the n-th identifier generated in this session
Uuid(n) == "u" \o ToString(n)

RangeOf(seq) == {seq[j] : j \in DOMAIN seq}

\* e.target.value.split(",") for the text with the characters cs
RECURSIVE Split(_, _)
Split(cs, acc) ==
  IF cs = <<>> THEN acc
  ELSE IF Head(cs) = "," THEN Split(Tail(cs), Append(acc, ""))
  ELSE Split(Tail(cs), [acc EXCEPT ![Len(acc)] = @ \o Head(cs)])

\* {...field, k: v}
WithProp(r, k, v) ==
  [x \in DOMAIN r \cup {k} |-> IF x = k THEN v ELSE r[x]]

\* a.splice(index, 1) on a copy of a; positions count from 1
Splice1(a, index) ==
  [j \in 1..(Len(a) - 1) |-> IF j < index THEN a[j] ELSE a[j + 1]]

\* templates left in storage by an earlier session
StoredFields ==
  <<[id |-> "f1", type |-> "enum", label |-> "Color", options |-> <<"a", "b">>],
    [id |-> "f2", type |-> "text", label |-> "Note"]>>

StoredLog == <<<<[k |-> "f1", v |-> JStr("a")]>>>>

StoredTemplate(n, fields) ==
  [id |-> "t" \o ToString(n),
   name |-> "Template " \o ToString(n),
   sections |-> <<[id |-> "s" \o ToString(n), title |-> "Section 1", fields |-> fields]>>]

StoredTemplates(n) ==
  [j \in 1..n |-> StoredTemplate(j, IF n = 1 THEN StoredFields ELSE <<>>)]

EmptyStorage == [k \in {} |-> <<>>]

\* what localStorage may hold when the page is opened
InitialStorage ==
  { EmptyStorage,
    SetItem(EmptyStorage, TEMPLATES_KEY, <<>>),
    SetItem(EmptyStorage, TEMPLATES_KEY, <<"{", "id">>),
    SetItem(SetItem(EmptyStorage, TEMPLATES_KEY, StringifyTemplates(StoredTemplates(1))),
            "form_data_t1", StringifyLog(StoredLog)),
    SetItem(SetItem(EmptyStorage, TEMPLATES_KEY, StringifyTemplates(StoredTemplates(MaxTemplates))),
            "form_data_t2", <<"[", "{">>) }

----------------------------------------------------------------------------
(* Mounting *)
\* variant: the effect does not write
PersistEffect_Skip(st, ts) == st

\* useEffect(() => localStorage.setItem("templates", JSON.stringify(templates)), [templates])
PersistEffect(st, ts) == SetItem(st, TEMPLATES_KEY, StringifyTemplates(ts))
\* variant: the builder starts from the list App holds, not from storage
MountBuilder_FromApp(st, appTs) ==
  /\ mode' = "builder"
  /\ templates' = appTs
  /\ localStorage' = PersistEffect(st, appTs)
  /\ appTemplates' = appTs
  /\ outcome' = "ok"

\* TemplateBuilder mounts: the useState initializer reads storage, then the
\* effect runs.  A throw while rendering unmounts the whole tree.
MountBuilder(st, appTs) ==
  LET r == LoadTemplates(st) IN
  IF r.ok
    THEN /\ mode' = "builder"
         /\ templates' = r.val
         /\ localStorage' = PersistEffect(st, r.val)
         /\ appTemplates' = appTs
         /\ outcome' = "ok"
    ELSE /\ mode' = "crashed"
         /\ templates' = <<>>
         /\ localStorage' = st
         /\ appTemplates' = <<>>
         /\ outcome' = "threw"

\* The state once App has rendered for the first time on a page whose
\* storage is st: App's initializer, then TemplateBuilder's, then the effect.
Mounted(st) ==
  LET r == LoadTemplates(st) IN
  [mode |-> IF r.ok THEN "builder" ELSE "crashed",
   appTemplates |-> IF r.ok THEN r.val ELSE <<>>,
   templates |-> IF r.ok THEN r.val ELSE <<>>,
   localStorage |-> IF r.ok THEN PersistEffect(st, r.val) ELSE st]

Init ==
  \E st \in InitialStorage :
    /\ localStorage = Mounted(st).localStorage
    /\ mode = Mounted(st).mode
    /\ appTemplates = Mounted(st).appTemplates
    /\ templates = Mounted(st).templates
    /\ selectedTemplate = null
    /\ currentTemplate = null
    /\ formData = <<>>
    /\ nextId = 0
    /\ changes = 0
    /\ outcome = IF Mounted(st).mode = "crashed" THEN "threw" ELSE "ok"

----------------------------------------------------------------------------
(* FieldEditor: each control emits a replacement field *)
\* variant: a type change rebuilds the field without its options
onTypeChange_Reset(field, v) == [id |-> field.id, type |-> v, label |-> field.label]

\* onChange({ ...field, type: e.target.value })
onTypeChange(field, v) == [field EXCEPT !.type = v]

\* onChange({ ...field, label: e.target.value })
onLabelChange(field, v) == [field EXCEPT !.label = v]

\* onChange({ ...field, options: e.target.value.split(",") })
onOptionsChange(field, cs) == WithProp(field, "options", Split(cs, <<"">>))

\* the options input is rendered: field.type === "enum"
OptionsInputShown(field) == field.type = "enum"

(* Section: each handler emits a replacement section *)

updateField(section, index, updated) ==
  [section EXCEPT !.fields = [@ EXCEPT ![index] = updated]]
\* variant: splice(index) without a delete count removes the rest as well
deleteField_Rest(section, index) ==
  [section EXCEPT !.fields = SubSeq(@, 1, index - 1)]

deleteField(section, index) ==
  [section EXCEPT !.fields = Splice1(@, index)]

\* onChange({ ...section, title: e.target.value })
onTitleChange(section, v) == [section EXCEPT !.title = v]
\* variant: the new field takes the identifier of its section
addField_SectionId(section, id) ==
  [section EXCEPT !.fields = Append(@, [id |-> section.id, type |-> "text", label |-> ""])]

\* "Add Field": fields: [...section.fields, { id: uuid(), type: "text", label: "" }]
addField(section, id) ==
  [section EXCEPT !.fields = Append(@, [id |-> id, type |-> "text", label |-> ""])]

(* TemplateBuilder *)
\* variant: the limit test is off by one
AtLimit_OffByOne(ts) == Len(ts) > MaxTemplates

\* if (templates.length >= 5) return;
AtLimit(ts) == Len(ts) >= MaxTemplates

newTemplate(ts, id1, id2) ==
  [id |-> id1,
   name |-> "Template " \o ToString(Len(ts) + 1),
   sections |-> <<[id |-> id2, title |-> "Section 1", fields |-> <<>>]>>]
\* variant: the template set is left as it was
withSections_Stale(ts, cur, updatedSections) == ts

\* templates.map((t) => t.id === currentTemplate.id ? { ...t, sections } : t)
withSections(ts, cur, updatedSections) ==
  [j \in DOMAIN ts |->
     IF ts[j].id = cur.id THEN [ts[j] EXCEPT !.sections = updatedSections] ELSE ts[j]]

\* the state changes of one handler of the builder that replaces the
\* sections of the current template, followed by the persistence effect
SetSections(updatedSections) ==
  /\ currentTemplate' = [currentTemplate EXCEPT !.sections = updatedSections]
  /\ templates' = withSections(templates, currentTemplate, updatedSections)
  /\ localStorage' = PersistEffect(localStorage, templates')
  /\ outcome' = "ok"
  /\ UNCHANGED <<mode, appTemplates, selectedTemplate, formData>>

updateSection(index, updated) ==
  SetSections([currentTemplate.sections EXCEPT ![index] = updated])

BuilderShown == mode = "builder"

EditorShown == BuilderShown /\ currentTemplate # null

\* positions of the Section components rendered, and of the FieldEditors of one
ShownSections == IF EditorShown THEN DOMAIN currentTemplate.sections ELSE {}

ShownFields(i) ==
  IF i \in ShownSections THEN DOMAIN currentTemplate.sections[i].fields ELSE {}

createTemplate ==
  /\ BuilderShown
  /\ IF AtLimit(templates)
       THEN /\ outcome' = "noop"
            /\ UNCHANGED <<localStorage, mode, appTemplates, selectedTemplate,
                           templates, currentTemplate, formData, nextId, changes>>
       ELSE /\ changes < MaxChanges
            /\ LET nt == newTemplate(templates, Uuid(nextId + 1), Uuid(nextId + 2)) IN
                 /\ templates' = Append(templates, nt)
                 /\ currentTemplate' = nt
            /\ localStorage' = PersistEffect(localStorage, templates')
            /\ nextId' = nextId + 2
            /\ outcome' = "ok"
            /\ changes' = changes + 1
            /\ UNCHANGED <<mode, appTemplates, selectedTemplate, formData>>

\* onClick={() => setCurrentTemplate(t)}
selectTemplate ==
  /\ BuilderShown
  /\ \E j \in DOMAIN templates :
       currentTemplate' = templates[j]
  /\ outcome' = "ok"
  /\ UNCHANGED <<localStorage, mode, appTemplates, selectedTemplate, templates,
                 formData, nextId, changes>>

addSection ==
  /\ EditorShown
  /\ changes < MaxChanges
  /\ SetSections(Append(currentTemplate.sections,
                        [id |-> Uuid(nextId + 1), title |-> "", fields |-> <<>>]))
  /\ nextId' = nextId + 1
  /\ changes' = changes + 1

\* the title input of section i changes to v
changeTitleAt(i, v) ==
  /\ i \in ShownSections
  /\ changes < MaxChanges
  /\ updateSection(i, onTitleChange(currentTemplate.sections[i], v))
  /\ changes' = changes + 1
  /\ UNCHANGED nextId

changeTitle ==
  \E i \in ShownSections, v \in TitleInputs : changeTitleAt(i, v)

\* "Add Field" of section i
clickAddFieldAt(i) ==
  /\ i \in ShownSections
  /\ changes < MaxChanges
  /\ updateSection(i, addField(currentTemplate.sections[i], Uuid(nextId + 1)))
  /\ nextId' = nextId + 1
  /\ changes' = changes + 1

clickAddField ==
  \E i \in ShownSections : clickAddFieldAt(i)

\* a FieldEditor control of field j of section i emits `updated`
EditField(i, j, updated) ==
  /\ changes < MaxChanges
  /\ updateSection(i, updateField(currentTemplate.sections[i], j, updated))
  /\ changes' = changes + 1
  /\ UNCHANGED nextId

FieldShown(i, j) == i \in ShownSections /\ j \in ShownFields(i)

changeTypeAt(i, j, v) ==
  /\ FieldShown(i, j)
  /\ EditField(i, j, onTypeChange(currentTemplate.sections[i].fields[j], v))

changeType ==
  \E i \in ShownSections :
    \E j \in ShownFields(i), v \in RangeOf(FIELD_TYPES) : changeTypeAt(i, j, v)

changeLabelAt(i, j, v) ==
  /\ FieldShown(i, j)
  /\ EditField(i, j, onLabelChange(currentTemplate.sections[i].fields[j], v))

changeLabel ==
  \E i \in ShownSections :
    \E j \in ShownFields(i), v \in LabelInputs : changeLabelAt(i, j, v)

changeOptionsAt(i, j, cs) ==
  /\ FieldShown(i, j)
  /\ OptionsInputShown(currentTemplate.sections[i].fields[j])
  /\ EditField(i, j, onOptionsChange(currentTemplate.sections[i].fields[j], cs))

changeOptions ==
  \E i \in ShownSections :
    \E j \in ShownFields(i), cs \in OptionInputs : changeOptionsAt(i, j, cs)

\* "Delete" of field j of section i
clickDeleteFieldAt(i, j) ==
  /\ FieldShown(i, j)
  /\ changes < MaxChanges
  /\ updateSection(i, deleteField(currentTemplate.sections[i], j))
  /\ changes' = changes + 1
  /\ UNCHANGED nextId

clickDeleteField ==
  \E i \in ShownSections :
    \E j \in ShownFields(i) : clickDeleteFieldAt(i, j)

----------------------------------------------------------------------------
(* App *)

AppShown == mode \in {"builder", "fill"}

\* "Use <name>": setSelectedTemplate(t).  Leaving builder mode unmounts the
\* TemplateBuilder and mounts a DynamicForm; within fill mode the mounted
\* DynamicForm keeps its state.
useTemplate ==
  /\ AppShown
  /\ \E j \in DOMAIN appTemplates :
       selectedTemplate' = appTemplates[j]
  /\ outcome' = "ok"
  /\ mode' = "fill"
  /\ templates' = <<>>
  /\ currentTemplate' = null
  /\ formData' = IF mode = "fill" THEN formData ELSE <<>>
  /\ UNCHANGED <<localStorage, appTemplates, nextId, changes>>

\* "Build Template": setSelectedTemplate(null).  From fill mode the
\* DynamicForm unmounts and a new TemplateBuilder mounts.
buildTemplate ==
  /\ AppShown
  /\ IF mode = "fill"
       THEN /\ MountBuilder(localStorage, appTemplates)
            /\ selectedTemplate' = null
            /\ currentTemplate' = null
            /\ formData' = <<>>
            /\ UNCHANGED <<nextId, changes>>
       ELSE /\ outcome' = "ok"
            /\ UNCHANGED <<localStorage, mode, appTemplates, selectedTemplate,
                           templates, currentTemplate, formData, nextId, changes>>

(* DynamicForm *)

FormShown == mode = "fill"

\* checked={formData[field.id] || false}
Checked(fd, field) == HasKey(fd, field.id) /\ Get(fd, field.id) = JBool(TRUE)

\* the values the control rendered for a field can report: e.target.value of
\* a text, number or select input, e.target.checked of a clicked checkbox
AnswerInputs(fd, field) ==
  IF field.type = "text" THEN {JStr("hello")}
  ELSE IF field.type = "number" THEN {JStr("7")}
  ELSE IF field.type = "boolean" THEN {JBool(~Checked(fd, field))}
  ELSE IF field.type = "enum"
    THEN {JStr("")} \cup
         (IF "options" \in DOMAIN field
            THEN {JStr(field.options[j]) : j \in DOMAIN field.options}
            ELSE {})
  ELSE {}

\* setFormData({ ...formData, [fieldId]: value })
handleChange ==
  /\ FormShown
  /\ changes < MaxChanges
  /\ \E i \in DOMAIN selectedTemplate.sections :
       \E j \in DOMAIN selectedTemplate.sections[i].fields :
         LET field == selectedTemplate.sections[i].fields[j] IN
         \E v \in AnswerInputs(formData, field) :
           formData' = Put(formData, field.id, v)
  /\ outcome' = "ok"
  /\ changes' = changes + 1
  /\ UNCHANGED <<localStorage, mode, appTemplates, selectedTemplate, templates,
                 currentTemplate, nextId>>

\* localStorage.getItem(key) || "[]"
StoredLogText(st, key) == IF Truthy(st, key) THEN st[key] ELSE <<"[", "]">>

\* A throw of JSON.parse leaves the handler before it writes anything.
handleSubmit ==
  /\ FormShown
  /\ LET key == FormDataKey(selectedTemplate)
         prev == JSONparse(StoredLogText(localStorage, key))
     IN IF prev.ok
          THEN /\ changes < MaxChanges
               /\ localStorage' =
                    SetItem(localStorage, key, StringifyLog(Append(prev.val, formData)))
               /\ formData' = <<>>
               /\ changes' = changes + 1
               /\ outcome' = "ok"
          ELSE /\ outcome' = "threw"
               /\ UNCHANGED <<localStorage, formData, changes>>
  /\ UNCHANGED <<mode, appTemplates, selectedTemplate, templates, currentTemplate,
                 nextId>>

----------------------------------------------------------------------------

Next ==
  \/ createTemplate
  \/ selectTemplate
  \/ addSection
  \/ changeTitle
  \/ clickAddField
  \/ changeType
  \/ changeLabel
  \/ changeOptions
  \/ clickDeleteField
  \/ useTemplate
  \/ buildTemplate
  \/ handleChange
  \/ handleSubmit

Spec == Init /\ [][Next]_vars

----------------------------------------------------------------------------
(* Shape of the state *)

TypeOK ==
  /\ mode \in {"builder", "fill", "crashed"}
  /\ outcome \in {"ok", "noop", "threw"}
  /\ changes \in 0..MaxChanges
  /\ nextId \in 0..(2 * changes)
  /\ (mode = "fill") <=> (selectedTemplate # null)
  /\ mode # "builder" => templates = <<>> /\ currentTemplate = null

----------------------------------------------------------------------------
(* Views of the state used by the properties *)

\* the template set read back from storage with the program's own reader
Persisted == LoadTemplates(localStorage)

\* seq without its element at position j
Without(seq, j) == SubSeq(seq, 1, j - 1) \o SubSeq(seq, j + 1, Len(seq))

RECURSIVE ConcatAll(_)
ConcatAll(ss) == IF ss = <<>> THEN <<>> ELSE Head(ss) \o ConcatAll(Tail(ss))

\* every identifier of a template set, one entry per template, section and field
SectionIds(sec) == <<sec.id>> \o [j \in DOMAIN sec.fields |-> sec.fields[j].id]

TemplateIds(tp) ==
  <<tp.id>> \o ConcatAll([j \in DOMAIN tp.sections |-> SectionIds(tp.sections[j])])

AllIds(ts) == ConcatAll([j \in DOMAIN ts |-> TemplateIds(ts[j])])

FieldsOfTemplate(tp) ==
  UNION {RangeOf(tp.sections[j].fields) : j \in DOMAIN tp.sections}

FieldsOf(ts) == UNION {FieldsOfTemplate(ts[j]) : j \in DOMAIN ts}

\* the options of a field, absent or present with a value
OptionsView(f) == IF "options" \in DOMAIN f THEN <<f.options>> ELSE <<>>

\* the submission log the spec reads under key: the stored sequence, or the
\* empty sequence when nothing readable is stored
LogOr(st, key) ==
  IF HasItem(st, key)
    THEN (LET r == JSONparse(st[key]) IN IF r.ok THEN r.val ELSE <<>>)
    ELSE <<>>

----------------------------------------------------------------------------
(* C1: the template set never holds more than 5 templates, in memory, in    *)
(* App's list or in storage; and Create New Template with 5 templates       *)
(* present leaves the template set, the current template and the stored     *)
(* `templates` value as they were.                                          *)

AtMostFive ==
  /\ Len(templates) <= 5
  /\ Len(appTemplates) <= 5
  /\ Persisted.ok => Len(Persisted.val) <= 5

C1_TemplateLimit ==
  /\ []AtMostFive
  /\ [][(createTemplate /\ Len(templates) = 5) =>
          UNCHANGED <<templates, currentTemplate, localStorage>>]_vars

\* Create New Template was clicked with 5 templates present
C1_Witness == BuilderShown /\ Len(templates) = 5 /\ outcome = "noop"

(* C2: a current template agrees with the entry of the template set that    *)
(* has its id: such an entry exists and every such entry equals it (same    *)
(* name, same sections in the same order with the same fields).             *)

C2_CurrentMatchesSet ==
  currentTemplate # null =>
    /\ \E j \in DOMAIN templates : templates[j].id = currentTemplate.id
    /\ \A j \in DOMAIN templates :
         templates[j].id = currentTemplate.id => templates[j] = currentTemplate

\* the current template has been edited since it was loaded or created, and
\* the set holds another template
C2_Witness ==
  /\ currentTemplate # null
  /\ Len(templates) > 1
  /\ changes = MaxChanges
  /\ \A j \in DOMAIN appTemplates : appTemplates[j] # currentTemplate
  /\ Len(currentTemplate.sections) > 1 \/ FieldsOfTemplate(currentTemplate) # {}

(* C3: while the Template Builder is mounted, the text stored under         *)
(* `templates` is the serialization of its template set, and reading that   *)
(* text back gives the template set.                                        *)

C3_StoredIsSerialization ==
  BuilderShown =>
    /\ HasItem(localStorage, TEMPLATES_KEY)
    /\ localStorage[TEMPLATES_KEY] = StringifyTemplates(templates)
    /\ Persisted.ok
    /\ Persisted.val = templates

\* the builder's set has changed during the session and holds fields
C3_Witness ==
  /\ BuilderShown
  /\ changes > 0
  /\ templates # appTemplates
  /\ \E f \in FieldsOf(templates) : "options" \in DOMAIN f

(* C4: the templates App lists are exactly the templates stored under       *)
(* `templates`, and the template given to the DynamicForm is one of them.   *)

C4_AppListsPersisted ==
  AppShown =>
    /\ Persisted.ok
    /\ appTemplates = Persisted.val
    /\ selectedTemplate # null =>
         \E j \in DOMAIN Persisted.val : Persisted.val[j] = selectedTemplate

(* C5: no read of storage throws: the application is never torn down by a   *)
(* throwing read while mounting, and no submit ends in a throw.             *)

C5_ReadsNeverThrow == mode # "crashed" /\ outcome # "threw"

(* C6: a submit for the selected template appends the answer mapping to the *)
(* log stored for that template (the empty log when nothing readable is     *)
(* stored), leaves every other key alone and empties the answer mapping.    *)

SubmitAppends ==
  LET key == FormDataKey(selectedTemplate) IN
  /\ HasItem(localStorage', key)
  /\ JSONparse(localStorage'[key]).ok
  /\ JSONparse(localStorage'[key]).val = Append(LogOr(localStorage, key), formData)
  /\ DOMAIN localStorage' = DOMAIN localStorage \cup {key}
  /\ \A k \in DOMAIN localStorage : k # key => localStorage'[k] = localStorage[k]
  /\ formData' = <<>>

C6_SubmitAppends == [][handleSubmit => SubmitAppends]_vars

\* the same, for the submits whose stored log is absent, empty or parses
SubmitAppendsReadable ==
  [][(handleSubmit /\ JSONparse(StoredLogText(localStorage, FormDataKey(selectedTemplate))).ok)
       => SubmitAppends]_vars

\* a submit has appended a non-empty mapping to the log of the earlier session
SubmitAppendedReached ==
  /\ HasItem(localStorage, "form_data_t1")
  /\ Len(LogOr(localStorage, "form_data_t1")) = 2
  /\ LogOr(localStorage, "form_data_t1")[2] # <<>>
  /\ formData = <<>>

(* C7: Build Template and Use <template> leave every stored value as it is, *)
(* also when they unmount or remount the Template Builder.                  *)

C7_ToggleKeepsStorage ==
  [][(useTemplate \/ buildTemplate) => localStorage' = localStorage]_vars

\* the builder has been remounted after its template set was edited
C7_Witness ==
  /\ BuilderShown
  /\ currentTemplate = null
  /\ changes > 0
  /\ templates # appTemplates
  /\ Len(appTemplates) > 0

(* C8: Delete on the field at position j of section i of the current        *)
(* template yields that section with the same id and title and with its     *)
(* fields minus the one at position j, the others unchanged and in order;   *)
(* the other sections and the other templates are unchanged, in the current *)
(* template and in the template set alike.                                  *)

DeletedAt(i, j) ==
  LET old == currentTemplate.sections[i]
      new == [id |-> old.id, title |-> old.title, fields |-> Without(old.fields, j)]
      cur == [id |-> currentTemplate.id,
              name |-> currentTemplate.name,
              sections |-> [k \in DOMAIN currentTemplate.sections |->
                              IF k = i THEN new ELSE currentTemplate.sections[k]]]
  IN /\ currentTemplate' = cur
     /\ templates' = [k \in DOMAIN templates |->
                        IF templates[k].id = currentTemplate.id THEN cur ELSE templates[k]]

C8_DeleteRemovesOne ==
  [][\A i \in ShownSections : \A j \in ShownFields(i) :
       clickDeleteFieldAt(i, j) => DeletedAt(i, j)]_vars

\* the first of the two stored fields has been deleted and the second is
\* what the section holds, in the current template and in the set
C8_Witness ==
  /\ EditorShown
  /\ \E i \in ShownSections : currentTemplate.sections[i].fields = <<StoredFields[2]>>
  /\ \E k \in DOMAIN templates :
       \E i \in DOMAIN templates[k].sections :
         templates[k].sections[i].fields = <<StoredFields[2]>>

(* C9: Add Field on section i appends one field to that section and leaves *)
(* its other fields as they were; the new field has type `text`, the empty  *)
(* label, no options, and an id that no template, section or field of the   *)
(* template set has at that moment; the ids of the template set are always  *)
(* pairwise distinct.                                                       *)

IdsDistinct(ts) == Cardinality(RangeOf(AllIds(ts))) = Len(AllIds(ts))

AddedAt(i) ==
  LET old == currentTemplate.sections[i].fields
      new == currentTemplate'.sections[i].fields
  IN /\ Len(new) = Len(old) + 1
     /\ SubSeq(new, 1, Len(old)) = old
     /\ DOMAIN new[Len(new)] = {"id", "type", "label"}
     /\ new[Len(new)].type = "text"
     /\ new[Len(new)].label = ""
     /\ new[Len(new)].id \notin RangeOf(AllIds(templates))
     /\ new[Len(new)].id \notin RangeOf(TemplateIds(currentTemplate))
     /\ \E k \in DOMAIN templates' : templates'[k] = currentTemplate'

C9_AddFieldAppendsFresh ==
  /\ [](IdsDistinct(templates) /\ (Persisted.ok => IdsDistinct(Persisted.val)))
  /\ [][\A i \in ShownSections : clickAddFieldAt(i) => AddedAt(i)]_vars

\* a field has been added behind an existing one, in a set of several ids
C9_Witness ==
  /\ EditorShown
  /\ \E i \in ShownSections :
       LET fs == currentTemplate.sections[i].fields IN
       /\ Len(fs) >= 2
       /\ fs[Len(fs)] = [id |-> Uuid(nextId), type |-> "text", label |-> ""]

(* C10: a change of the type select of a field changes the type of that    *)
(* field and nothing else of it (id, label and options, present or absent,  *)
(* stay); and the options of a field change only in a step that edits its   *)
(* options input while its type is `enum`.                                  *)

TypeChangedAt(i, j, v) ==
  LET old == currentTemplate.sections[i].fields[j]
      new == currentTemplate'.sections[i].fields[j]
  IN /\ DOMAIN new = DOMAIN old
     /\ new.type = v
     /\ \A k \in DOMAIN old \ {"type"} : new[k] = old[k]

\* field f of the set before the step and field g of the set after it are
\* the same field with different options
OptionsChanged(f, g) == f.id = g.id /\ OptionsView(f) # OptionsView(g)

OptionsEdited(f) ==
  /\ f.type = "enum"
  /\ \E i \in ShownSections : \E j \in ShownFields(i), cs \in OptionInputs :
       /\ currentTemplate.sections[i].fields[j].id = f.id
       /\ changeOptionsAt(i, j, cs)

PersistedFields(st) ==
  LET r == LoadTemplates(st) IN IF r.ok THEN FieldsOf(r.val) ELSE {}

C10_TypeChangeKeepsOptions ==
  /\ [][\A i \in ShownSections : \A j \in ShownFields(i) : \A v \in RangeOf(FIELD_TYPES) :
          changeTypeAt(i, j, v) => TypeChangedAt(i, j, v)]_vars
  /\ [][templates' # templates =>
          \A f \in FieldsOf(templates) : \A g \in FieldsOf(templates') :
            OptionsChanged(f, g) => OptionsEdited(f)]_vars
  /\ [][localStorage' # localStorage =>
          \A f \in PersistedFields(localStorage) : \A g \in PersistedFields(localStorage') :
            OptionsChanged(f, g) => OptionsEdited(f)]_vars

\* a field that is no longer an enum still has the options it was given
C10_Witness ==
  \E f \in FieldsOf(templates) :
    /\ f.type # "enum"
    /\ "options" \in DOMAIN f
    /\ f.options = <<"x", "y">>

====
